---- MODULE Spec2Model ----
(***************************************************************************)
(* A model of the two primitives of the gameboy core:                      *)
(*   - Wram       (src/src/memory.rs): eight 4 KiB banks, bank switching    *)
(*                and the SVBK control register;                            *)
(*   - Registers  (src/src/cpu.rs): the register pairs as U8Pair unions,    *)
(*                their lane accessors and the flag bits.                   *)
(* The two components never call each other. SpecBanks, SpecSvbk and       *)
(* SpecTrap drive the working ram; SpecPairs and SpecFlags drive the        *)
(* register file.                                                           *)
(***************************************************************************)
EXTENDS Integers, Sequences, FiniteSets, TLC

VARIABLES
    ram,              \* Wram.ram, sparse: <<bank, index>> -> non-zero byte
    selected_bank,    \* Wram.selected_bank
    written,          \* call history: <<selected bank or 0, addr>> -> last byte a wb call stored
    debug_assertions, \* build: cfg(debug_assertions)
    overflow_checks,  \* build: -C overflow-checks
    target_endian,    \* build: cfg(target_endian)
    regs,             \* Registers: af, bc, de, hl (two bytes of memory each), sp, pc
    last,             \* the call that ended last and what it returned
    nops              \* number of calls made so far

vars == <<ram, selected_bank, written, debug_assertions, overflow_checks,
          target_endian, regs, last, nops>>

----------------------------------------------------------------------------
(* Bounds of the model *)

\* calls per run of SpecBanks
MaxBankOps == 4

\* calls per run of SpecSvbk
MaxSvbkOps == 3

\* calls per run of SpecTrap
MaxTrapOps == 3

\* calls per run of SpecPairs
MaxPairOps == 3

\* calls per run of SpecFlags
MaxFlagOps == 3

\* addresses inside the window: the ends of both halves and the address of
\* the bank isolation example
WindowInputs == {49152, 53247, 53248, 53264, 57343}

\* addresses outside the window, on both sides of it
OutsideInputs == {0, 1, 4095, 4096, 8192, 16384, 32768, 45056, 49151,
                  57344, 57345, 61439, 61440, 65535}

\* bytes handed to wb
ByteInputs == {0, 7}

\* every 8-bit value
U8 == 0..255

\* words written through the whole view of a register pair, and AF at reset
WordInputs == {4660, 42330}

\* bytes written through a lane of a register pair
LaneInputs == {90, 165}

\* AF at reset
AfInits == {0, 4660, 65535}

\* BC, DE and HL at reset, all three alike
PairInits == {0, 42330}

\* SP and PC at reset
PlainInits == {0}

\* bytes handed to write_svbk in SpecBanks and SpecTrap: every bank from 1
\* to 7, bank 1 by way of a zero too, banks 3 to 7 with bits above the low three
BankInputs == {0, 1, 2, 11, 12, 245, 254, 255}

----------------------------------------------------------------------------
(* Fixed-width integer arithmetic *)

Pow2(n) == 2^n

\* bit i of x
Bit(x, i) == (x \div Pow2(i)) % 2

RECURSIVE BitAndN(_, _, _)
\* a & b on the low n bits
BitAndN(a, b, n) ==
    IF n = 0 THEN 0
    ELSE BitAndN(a, b, n - 1) + Pow2(n - 1) * (Bit(a, n - 1) * Bit(b, n - 1))

RECURSIVE BitOrN(_, _, _)
\* a | b on the low n bits
BitOrN(a, b, n) ==
    IF n = 0 THEN 0
    ELSE BitOrN(a, b, n - 1)
         + Pow2(n - 1) * (IF Bit(a, n - 1) + Bit(b, n - 1) > 0 THEN 1 ELSE 0)

\* u8 operators
And8(a, b) == BitAndN(a, b, 8)
Or8(a, b) == BitOrN(a, b, 8)
Not8(a) == 255 - a

\* usize: the narrowest pointer width Rust has; a wider usize wraps a
\* negative difference to a larger value still
UsizeBits == 16

\* a - b that stops at 0
SaturatingSub(a, b) == IF a < b THEN 0 ELSE a - b

\* a - b on usize without overflow checks
WrappingSub(a, b) == (a - b + Pow2(UsizeBits)) % Pow2(UsizeBits)

----------------------------------------------------------------------------
(* Wram: src/src/memory.rs *)

NumBanks == 8
BankSize == 4096
WramStart == 49152   \* 0xc000
WramMid == 53248     \* 0xd000
WramEnd == 57344     \* 0xe000

\* ram: [[u8; 0x1000]; 8], kept sparse: a cell that is absent holds 0
RamAt(r, bank, i) == IF <<bank, i>> \in DOMAIN r THEN r[<<bank, i>>] ELSE 0

RamSet(r, bank, i, value) ==
    LET cell == <<bank, i>>
        dom == IF value = 0 THEN DOMAIN r \ {cell} ELSE DOMAIN r \cup {cell}
    IN [c \in dom |-> IF c = cell THEN value ELSE r[c]]

\* Wram::new
new == [ram |-> [c \in {} |-> 0], selected_bank |-> 1]

\* the place an access resolves to: a trap, or a bank and an index into it
\* (rb and wb share the debug assertion, the branch and the index arithmetic)
Resolve(sel, addr, dbg, ovf) ==
    IF dbg /\ ~(WramStart <= addr /\ addr < WramEnd)
    THEN [trap |-> TRUE, bank |-> 0, index |-> 0]
    ELSE IF addr < WramMid
         THEN IF ovf /\ addr < WramStart
              THEN [trap |-> TRUE, bank |-> 0, index |-> 0]
              ELSE LET i == WrappingSub(addr, WramStart)
                   IN [trap |-> ~(i < BankSize), bank |-> 0, index |-> i]
         ELSE LET i == addr - WramMid
              IN [trap |-> ~(sel < NumBanks /\ i < BankSize), bank |-> sel, index |-> i]

\* rb that reads the switchable half from bank 1 whatever bank is selected
rb_bank_1(r, sel, addr, dbg, ovf) ==
    LET p == Resolve(sel, addr, dbg, ovf)
    IN IF p.trap THEN [trap |-> TRUE, ret |-> 0]
       ELSE [trap |-> FALSE, ret |-> RamAt(r, IF p.bank = 0 THEN 0 ELSE 1, p.index)]

\* Wram::rb: the byte returned, or a trap
rb(r, sel, addr, dbg, ovf) ==
    LET p == Resolve(sel, addr, dbg, ovf)
    IN IF p.trap THEN [trap |-> TRUE, ret |-> 0]
       ELSE [trap |-> FALSE, ret |-> RamAt(r, p.bank, p.index)]

\* wb that stores into the selected bank in both halves
wb_selected_bank_only(r, sel, addr, value, dbg, ovf) ==
    LET p == Resolve(sel, addr, dbg, ovf)
    IN IF p.trap THEN [trap |-> TRUE, ram |-> r]
       ELSE [trap |-> FALSE, ram |-> RamSet(r, sel, p.index, value)]

\* wb that stores a byte of the switchable half into every bank from 1 to 7
wb_every_bank(r, sel, addr, value, dbg, ovf) ==
    LET p == Resolve(sel, addr, dbg, ovf)
        cells == IF p.bank = 0 THEN {<<0, p.index>>}
                 ELSE {<<bank, p.index>> : bank \in 1..(NumBanks - 1)}
        dom == IF value = 0 THEN DOMAIN r \ cells ELSE DOMAIN r \cup cells
    IN IF p.trap THEN [trap |-> TRUE, ram |-> r]
       ELSE [trap |-> FALSE, ram |-> [c \in dom |-> IF c \in cells THEN value ELSE r[c]]]

\* Wram::wb: the ram after the call, or a trap
wb(r, sel, addr, value, dbg, ovf) ==
    LET p == Resolve(sel, addr, dbg, ovf)
    IN IF p.trap THEN [trap |-> TRUE, ram |-> r]
       ELSE [trap |-> FALSE, ram |-> RamSet(r, p.bank, p.index, value)]

\* read_svbk without the unused bits
read_svbk_low_bits(sel) == And8(sel, 7) % 256

\* Wram::read_svbk
read_svbk(sel) == Or8(And8(sel, 7) % 256, Not8(7))

\* write_svbk without the coercion of bank 0
write_svbk_no_coercion(value) == And8(value, 7)

\* Wram::write_svbk: the bank selected after the call
write_svbk(value) ==
    LET sel == And8(value, 7)
    IN IF sel = 0 THEN 1 ELSE sel

\* the call history's key of an address: bank 0 for the fixed half, the bank
\* selected at the time of the call for the switchable half
HistKey(sel, addr) == <<IF addr < WramMid THEN 0 ELSE sel, addr>>

InWindow(addr) == WramStart <= addr /\ addr < WramEnd

NoCall == [op |-> "none", addr |-> 0, value |-> 0, ret |-> 0, trap |-> FALSE]

\* a call is made only while no earlier call has trapped: a trap is a panic
Running(max) == ~last.trap /\ nops < max

\* the register file at machine reset, left alone by the working ram
RegsIdle == [af |-> <<0, 0>>, bc |-> <<0, 0>>, de |-> <<0, 0>>, hl |-> <<0, 0>>,
             sp |-> 0, pc |-> 0]

InitWram ==
    /\ ram = new.ram
    /\ selected_bank = new.selected_bank
    /\ written = [c \in {} |-> 0]
    /\ debug_assertions \in BOOLEAN
    /\ overflow_checks \in BOOLEAN
    /\ target_endian = "little"
    /\ regs = RegsIdle
    /\ last = NoCall
    /\ nops = 0

Called(call) ==
    /\ last' = call
    /\ nops' = nops + 1
    /\ UNCHANGED <<debug_assertions, overflow_checks, target_endian>>

CallRb(addr, max) ==
    /\ Running(max)
    /\ LET r == rb(ram, selected_bank, addr, debug_assertions, overflow_checks)
       IN Called([op |-> "rb", addr |-> addr, value |-> 0, ret |-> r.ret, trap |-> r.trap])
    /\ UNCHANGED <<ram, selected_bank, written, regs>>

CallWb(addr, value, max) ==
    /\ Running(max)
    /\ LET w == wb(ram, selected_bank, addr, value, debug_assertions, overflow_checks)
       IN /\ ram' = w.ram
          /\ written' = IF w.trap THEN written
                        ELSE LET k == HistKey(selected_bank, addr)
                             IN [c \in DOMAIN written \cup {k} |->
                                    IF c = k THEN value ELSE written[c]]
          /\ Called([op |-> "wb", addr |-> addr, value |-> value, ret |-> 0, trap |-> w.trap])
    /\ UNCHANGED <<selected_bank, regs>>

CallReadSvbk(max) ==
    /\ Running(max)
    /\ Called([op |-> "read_svbk", addr |-> 0, value |-> 0,
               ret |-> read_svbk(selected_bank), trap |-> FALSE])
    /\ UNCHANGED <<ram, selected_bank, written, regs>>

CallWriteSvbk(value, max) ==
    /\ Running(max)
    /\ selected_bank' = write_svbk(value)
    /\ Called([op |-> "write_svbk", addr |-> 0, value |-> value, ret |-> 0, trap |-> FALSE])
    /\ UNCHANGED <<ram, written, regs>>

\* the bank claims: accesses inside the window
NextBanks ==
    \/ \E addr \in WindowInputs : CallRb(addr, MaxBankOps)
    \/ \E addr \in WindowInputs, value \in ByteInputs : CallWb(addr, value, MaxBankOps)
    \/ CallReadSvbk(MaxBankOps)
    \/ \E value \in BankInputs : CallWriteSvbk(value, MaxBankOps)

SpecBanks == InitWram /\ [][NextBanks]_vars

\* the control register claims: every value written to SVBK
NextSvbk ==
    \/ \E addr \in {53264} : CallRb(addr, MaxSvbkOps)
    \/ \E addr \in {53264}, value \in {7} : CallWb(addr, value, MaxSvbkOps)
    \/ CallReadSvbk(MaxSvbkOps)
    \/ \E value \in U8 : CallWriteSvbk(value, MaxSvbkOps)

SpecSvbk == InitWram /\ [][NextSvbk]_vars

\* the out-of-range claims: accesses on both sides of the window
NextTrap ==
    \/ \E addr \in WindowInputs \cup OutsideInputs : CallRb(addr, MaxTrapOps)
    \/ \E addr \in WindowInputs \cup OutsideInputs, value \in ByteInputs :
          CallWb(addr, value, MaxTrapOps)
    \/ CallReadSvbk(MaxTrapOps)
    \/ \E value \in BankInputs : CallWriteSvbk(value, MaxTrapOps)

SpecTrap == InitWram /\ [][NextTrap]_vars

----------------------------------------------------------------------------
(* Registers: src/src/cpu.rs *)

\* enum Flag with the carry flag one bit too low
Flag_carry_bit_3 == [Z |-> 128, N |-> 64, H |-> 32, C |-> 8]

\* enum Flag
Flag == [Z |-> 128, N |-> 64, H |-> 32, C |-> 16]

FlagNames == DOMAIN Flag

\* union U8Pair { pair: [u8; 2], whole: u16 }: two bytes of memory, here
\* <<pair[0], pair[1]>>; whole is the same two bytes in the target's byte order

\* U8Pair::from_u16
from_u16(value, endian) ==
    IF endian = "little" THEN <<value % 256, value \div 256>>
    ELSE <<value \div 256, value % 256>>

\* U8Pair::as_u16, read
as_u16(p, endian) ==
    IF endian = "little" THEN p[1] + 256 * p[2]
    ELSE 256 * p[1] + p[2]

\* as_hi with the little-endian body under both targets
as_hi_little_only(endian) == 1

\* U8Pair::as_hi: the index into pair it borrows
as_hi(endian) == IF endian = "little" THEN 1 ELSE 0

\* as_lo with the little-endian body under both targets
as_lo_little_only(endian) == 0

\* U8Pair::as_lo: the index into pair it borrows
as_lo(endian) == IF endian = "little" THEN 0 ELSE 1

\* the byte at pair[i], and the pair with pair[i] = value
PairAt(p, i) == p[i + 1]
PairSet(p, i, value) == [p EXCEPT ![i + 1] = value]

\* impl Registers: each public accessor, the field it borrows and the view
Accessors == [a  |-> [field |-> "af", view |-> "hi"],
              b  |-> [field |-> "bc", view |-> "hi"],
              c  |-> [field |-> "bc", view |-> "lo"],
              d  |-> [field |-> "de", view |-> "hi"],
              e  |-> [field |-> "de", view |-> "lo"],
              h  |-> [field |-> "hl", view |-> "hi"],
              l  |-> [field |-> "hl", view |-> "lo"],
              bc |-> [field |-> "bc", view |-> "whole"],
              de |-> [field |-> "de", view |-> "whole"],
              hl |-> [field |-> "hl", view |-> "whole"]]

AccessorNames == DOMAIN Accessors

PairNames == {"af", "bc", "de", "hl"}

\* a read through a view of a pair
ViewGet(p, view, endian) ==
    CASE view = "hi" -> PairAt(p, as_hi(endian))
      [] view = "lo" -> PairAt(p, as_lo(endian))
      [] view = "whole" -> as_u16(p, endian)

\* a write through a view of a pair
ViewSet(p, view, value, endian) ==
    CASE view = "hi" -> PairSet(p, as_hi(endian), value)
      [] view = "lo" -> PairSet(p, as_lo(endian), value)
      [] view = "whole" -> from_u16(value, endian)

\* a read through the reference an accessor returns
Load(rs, acc, endian) ==
    ViewGet(rs[Accessors[acc].field], Accessors[acc].view, endian)

\* a write through the reference an accessor returns
Store(rs, acc, value, endian) ==
    LET f == Accessors[acc].field
    IN [rs EXCEPT ![f] = ViewSet(rs[f], Accessors[acc].view, value, endian)]

\* set_flag that assigns the flag's byte instead of or-ing it in
set_flag_assign(rs, flag, value, endian) ==
    LET lo == PairAt(rs.af, as_lo(endian))
        new_lo == IF value THEN Flag[flag] ELSE And8(lo, Not8(Flag[flag]))
    IN [rs EXCEPT !.af = PairSet(rs.af, as_lo(endian), new_lo)]

\* Registers::set_flag: the registers after the call
set_flag(rs, flag, value, endian) ==
    LET lo == PairAt(rs.af, as_lo(endian))
        new_lo == IF value THEN Or8(lo, Flag[flag]) ELSE And8(lo, Not8(Flag[flag]))
    IN [rs EXCEPT !.af = PairSet(rs.af, as_lo(endian), new_lo)]

\* Registers::get_flag
get_flag(rs, flag, endian) ==
    And8(PairAt(rs.af, as_lo(endian)), Flag[flag]) = Flag[flag]

\* the accessors SpecFlags calls
FlagSpecAccessors == {"a", "c", "bc"}

\* the values of a view
ViewInputs(view) == IF view = "whole" THEN WordInputs ELSE LaneInputs

NoRegCall == [op |-> "none", name |-> "", value |-> 0, ret |-> 0, flag |-> FALSE,
              trap |-> FALSE]

\* Registers has no constructor: its fields are built by U8Pair::from_u16
\* from any u16, and sp and pc are any u16
InitRegs ==
    /\ target_endian \in {"little", "big"}
    /\ \E af \in AfInits, w \in PairInits, sp \in PlainInits, pc \in PlainInits :
          regs = [af |-> from_u16(af, target_endian), bc |-> from_u16(w, target_endian),
                  de |-> from_u16(w, target_endian), hl |-> from_u16(w, target_endian),
                  sp |-> sp, pc |-> pc]
    /\ ram = new.ram
    /\ selected_bank = new.selected_bank
    /\ written = [c \in {} |-> 0]
    /\ debug_assertions = TRUE
    /\ overflow_checks = TRUE
    /\ last = NoRegCall
    /\ nops = 0

RegCalled(call, max) ==
    /\ nops < max
    /\ last' = call
    /\ nops' = nops + 1
    /\ UNCHANGED <<ram, selected_bank, written, debug_assertions, overflow_checks,
                   target_endian>>

\* *regs.acc() = value
CallStore(acc, value, max) ==
    /\ regs' = Store(regs, acc, value, target_endian)
    /\ RegCalled([op |-> "store", name |-> acc, value |-> value, ret |-> 0,
                  flag |-> FALSE, trap |-> FALSE], max)

\* *regs.acc()
CallLoad(acc, max) ==
    /\ UNCHANGED regs
    /\ RegCalled([op |-> "load", name |-> acc, value |-> 0,
                  ret |-> Load(regs, acc, target_endian), flag |-> FALSE,
                  trap |-> FALSE], max)

CallSetFlag(flag, value, max) ==
    /\ regs' = set_flag(regs, flag, value, target_endian)
    /\ RegCalled([op |-> "set_flag", name |-> flag, value |-> 0, ret |-> 0,
                  flag |-> value, trap |-> FALSE], max)

CallGetFlag(flag, max) ==
    /\ UNCHANGED regs
    /\ RegCalled([op |-> "get_flag", name |-> flag, value |-> 0, ret |-> 0,
                  flag |-> get_flag(regs, flag, target_endian), trap |-> FALSE], max)

\* the register pair claims: every accessor, no flag call
NextPairs ==
    \/ \E acc \in AccessorNames :
          \E value \in ViewInputs(Accessors[acc].view) : CallStore(acc, value, MaxPairOps)
    \/ \E acc \in AccessorNames : CallLoad(acc, MaxPairOps)

SpecPairs == InitRegs /\ [][NextPairs]_vars

\* the flag claims: the flag calls, and the accessors of A and of BC
NextFlags ==
    \/ \E acc \in FlagSpecAccessors :
          \E value \in ViewInputs(Accessors[acc].view) : CallStore(acc, value, MaxFlagOps)
    \/ \E acc \in FlagSpecAccessors : CallLoad(acc, MaxFlagOps)
    \/ \E flag \in FlagNames, value \in BOOLEAN : CallSetFlag(flag, value, MaxFlagOps)
    \/ \E flag \in FlagNames : CallGetFlag(flag, MaxFlagOps)

SpecFlags == InitRegs /\ [][NextFlags]_vars

----------------------------------------------------------------------------
(* The control register: SpecSvbk *)

\* the bank the low three bits of a byte select
BankOf(v) == IF v % 8 # 0 THEN v % 8 ELSE 1

\* C1: selected_bank is 1 right after construction and, whatever calls are
\* made and whatever bytes are written to SVBK, it is never 0 and never above 7.
C1_SelectedBankInRange ==
    /\ selected_bank \in 1..7
    /\ nops = 0 => selected_bank = 1

\* a byte with low bits 0 and high bits set was written, and bank 1 is selected
C1_Witness ==
    /\ last.op = "write_svbk"
    /\ last.value = 248
    /\ selected_bank = 1

\* C8: read_svbk right after write_svbk(v) returns 0xF8 | k, k the low three
\* bits of v or 1 when they are 0; every read_svbk returns the upper five bits set.
C8_ControlCoercionAndMasking ==
    [][/\ last'.op = "read_svbk" => last'.ret \div 8 = 31
       /\ (last.op = "write_svbk" /\ last'.op = "read_svbk")
             => last'.ret = 248 + BankOf(last.value)
       /\ (last.op = "write_svbk" /\ last.value = 245 /\ last'.op = "read_svbk")
             => last'.ret = 253
       /\ (last.op = "write_svbk" /\ last.value \in {0, 1} /\ last'.op = "read_svbk")
             => last'.ret = 249]_vars

\* read_svbk returned 0xFD with bank 5 selected
C8_Witness ==
    /\ last.op = "read_svbk"
    /\ last.ret = 253
    /\ selected_bank = 5

----------------------------------------------------------------------------
(* The banks: SpecBanks *)

\* the byte the call history holds for a bank and an address, 0 when no wb
\* call stored there
Written(bank, addr) ==
    IF <<bank, addr>> \in DOMAIN written THEN written[<<bank, addr>>] ELSE 0

\* a wb of x at addr under bank sel, then an rb of addr: the byte rb returns is x
RoundTrip(sel, addr, x) ==
    LET w == wb(ram, sel, addr, x, debug_assertions, overflow_checks)
    IN /\ ~w.trap
       /\ rb(w.ram, sel, addr, debug_assertions, overflow_checks)
             = [trap |-> FALSE, ret |-> x]

\* C5: rb(addr) right after wb(addr, x), with addr in 0xC000..0xDFFF and
\* any bank from 1 to 7 selected, returns x. On the new working ram this is
\* computed for every address of the window with two bytes, and for every
\* byte at the ends of the two halves; then for each call made.
C5_ReadWriteRoundTrip ==
    /\ \A sel \in 1..7 :
          /\ \A addr \in WramStart..(WramEnd - 1), x \in {7, 255} : RoundTrip(sel, addr, x)
          /\ \A addr \in WindowInputs, x \in U8 : RoundTrip(sel, addr, x)
    /\ [][(/\ last.op = "wb"
           /\ InWindow(last.addr)
           /\ selected_bank \in 1..7
           /\ last'.op = "rb"
           /\ last'.addr = last.addr)
             => (~last'.trap /\ last'.ret = last.value)]_vars

\* rb returned the 7 stored at the first address of the switchable half of bank 3
C5_Witness ==
    /\ last.op = "rb"
    /\ last.addr = 53248
    /\ last.ret = 7
    /\ selected_bank = 3
    /\ Written(3, 53248) = 7

\* C6: a byte stored by wb in the first half of the window is what rb returns
\* there after any write_svbk calls and any stores to the second half: the
\* first half resolves to bank 0 whatever bank is selected.
C6_FixedRegionBankIndependence ==
    /\ \A k \in DOMAIN written :
          k[1] = 0 =>
             /\ rb(ram, selected_bank, k[2], debug_assertions, overflow_checks)
                   = [trap |-> FALSE, ret |-> written[k]]
             /\ RamAt(ram, 0, k[2] - WramStart) = written[k]
    /\ (last.op = "rb" /\ InWindow(last.addr) /\ last.addr < WramMid)
          => (~last.trap /\ last.ret = Written(0, last.addr))

\* rb returned the 7 stored at the last address of the first half, after bank
\* 3 was selected and a byte stored in its switchable half
C6_Witness ==
    /\ last.op = "rb"
    /\ last.addr = 53247
    /\ last.ret = 7
    /\ selected_bank = 3
    /\ <<3, 53248>> \in DOMAIN written

\* C7: a wb to the switchable half while bank i is selected sets one byte of
\* bank i and changes no other byte of any bank; rb of an address of the
\* switchable half returns what was last stored there while the bank now
\* selected was selected, 0 if nothing was.
C7_BankIsolation ==
    [][/\ (last'.op = "wb" /\ InWindow(last'.addr) /\ last'.addr >= WramMid)
             => /\ ~last'.trap
                /\ RamAt(ram', selected_bank, last'.addr - WramMid) = last'.value
                /\ \A c \in DOMAIN ram \cup DOMAIN ram' :
                      c # <<selected_bank, last'.addr - WramMid>>
                         => RamAt(ram', c[1], c[2]) = RamAt(ram, c[1], c[2])
       /\ (last'.op = "rb" /\ InWindow(last'.addr) /\ last'.addr >= WramMid)
             => (~last'.trap /\ last'.ret = Written(selected_bank', last'.addr))]_vars

\* write_svbk(2); wb(0xD010, 7); write_svbk(3); rb(0xD010) returned 0
C7_Witness ==
    /\ last.op = "rb"
    /\ last.addr = 53264
    /\ last.ret = 0
    /\ selected_bank = 3
    /\ Written(2, 53264) = 7

----------------------------------------------------------------------------
(* Accesses outside the window: SpecTrap *)

\* every 16-bit address outside the window
OutsideWindow == (0..65535) \ (WramStart..(WramEnd - 1))

\* C10: rb and wb of an address outside 0xC000..0xDFFF trap, in every build,
\* return no byte and leave every bank byte and selected_bank as they were.
\* On the new working ram this is computed for every 16-bit address outside
\* the window; then for each call made.
C10_OutOfRangeTraps ==
    /\ \A addr \in OutsideWindow :
          /\ rb(ram, selected_bank, addr, debug_assertions, overflow_checks)
                = [trap |-> TRUE, ret |-> 0]
          /\ wb(ram, selected_bank, addr, 7, debug_assertions, overflow_checks)
                = [trap |-> TRUE, ram |-> ram]
    /\ [][(last'.op \in {"rb", "wb"} /\ ~InWindow(last'.addr))
             => /\ last'.trap
                /\ last'.ret = 0
                /\ ram' = ram
                /\ selected_bank' = selected_bank]_vars

\* a wb below the window trapped in a build with neither the debug assertion
\* nor overflow checks: the offset wrapped and the bounds check caught it
C10_Witness ==
    /\ last.op = "wb"
    /\ last.addr = 49151
    /\ last.trap
    /\ ~debug_assertions
    /\ ~overflow_checks

----------------------------------------------------------------------------
(* The register pairs: SpecPairs *)

Views == {"whole", "hi", "lo"}

\* the accessors of a view of a field
AccessorsOf(field, view) ==
    {acc \in AccessorNames : Accessors[acc] = [field |-> field, view |-> view]}

\* the last call went through a view of a field
Through(call, op, field, view) ==
    /\ call.op = op
    /\ call.name \in AccessorsOf(field, view)

\* a U8Pair written through one view and then another
Written2(p, view1, value1, view2, value2) ==
    ViewSet(ViewSet(p, view1, value1, target_endian), view2, value2, target_endian)

\* C2: after a write of v through the whole view of a pair, a read of its high
\* lane gives v >> 8 and a read of its low lane v & 0xFF; after writes of h
\* through the high lane and of l through the low lane, in either order, a read
\* of the whole view gives (h << 8) | l; under both byte orders of the target.
\* On the U8Pair of BC at reset this is computed for every 16-bit v and every
\* pair of bytes; then for each call made through the accessors.
C2_AliasConsistency ==
    /\ \A v \in 0..65535 :
          LET p == ViewSet(regs.bc, "whole", v, target_endian)
          IN /\ ViewGet(p, "hi", target_endian) = v \div 256
             /\ ViewGet(p, "lo", target_endian) = v % 256
    /\ \A h \in U8, l \in U8 :
          /\ ViewGet(Written2(regs.bc, "hi", h, "lo", l), "whole", target_endian) = 256 * h + l
          /\ ViewGet(Written2(regs.bc, "lo", l, "hi", h), "whole", target_endian) = 256 * h + l
    /\ [][\A f \in PairNames :
             /\ (Through(last, "store", f, "whole") /\ Through(last', "load", f, "hi"))
                   => last'.ret = last.value \div 256
             /\ (Through(last, "store", f, "whole") /\ Through(last', "load", f, "lo"))
                   => last'.ret = last.value % 256
             /\ (Through(last, "store", f, "hi") /\ Through(last', "store", f, "lo"))
                   => \A acc \in AccessorsOf(f, "whole") :
                         Load(regs', acc, target_endian) = 256 * last.value + last'.value
             /\ (Through(last, "store", f, "lo") /\ Through(last', "store", f, "hi"))
                   => \A acc \in AccessorsOf(f, "whole") :
                         Load(regs', acc, target_endian) = 256 * last'.value + last.value
             /\ (Through(last, "store", f, "hi") /\ Through(last', "load", f, "whole"))
                   => last'.ret \div 256 = last.value
             /\ (Through(last, "store", f, "lo") /\ Through(last', "load", f, "whole"))
                   => last'.ret % 256 = last.value]_vars

\* on a big-endian target, hl read 0x5AA5 after h and l were written
C2_Witness ==
    /\ target_endian = "big"
    /\ Through(last, "load", "hl", "whole")
    /\ last.ret = 23205
    /\ Load(regs, "h", target_endian) = 90
    /\ Load(regs, "l", target_endian) = 165

----------------------------------------------------------------------------
(* The flags: SpecFlags *)

\* the bit of each flag in the low lane of AF
FlagBit == [Z |-> 7, N |-> 6, H |-> 5, C |-> 4]

AfHi == ViewGet(regs.af, "hi", target_endian)
AfLo == ViewGet(regs.af, "lo", target_endian)

\* the registers at reset with AF any of three bytes of A and any low lane
AnyAf ==
    {[regs EXCEPT !.af = from_u16(256 * hi + lo, target_endian)] : hi \in {0, 18, 255}, lo \in U8}

\* C3: set_flag(F, true) makes get_flag(F) return true, set_flag(F, false)
\* makes it return false, and get_flag of each other flag returns what it
\* returned before the call. Computed for every low lane of AF at reset; then
\* for each call made.
C3_FlagIndependence ==
    /\ \A rs \in AnyAf, f \in FlagNames, value \in BOOLEAN, g \in FlagNames :
          get_flag(set_flag(rs, f, value, target_endian), g, target_endian)
             = IF g = f THEN value ELSE get_flag(rs, g, target_endian)
    /\ [][/\ last'.op = "set_flag"
                => \A g \in FlagNames :
                      get_flag(regs', g, target_endian)
                         = IF g = last'.name THEN last'.flag
                           ELSE get_flag(regs, g, target_endian)
          /\ (last.op = "set_flag" /\ last'.op = "get_flag" /\ last'.name = last.name)
                => last'.flag = last.flag]_vars

\* get_flag(H) returned true after set_flag(H, true) while Z, N and C are clear
C3_Witness ==
    /\ last.op = "get_flag"
    /\ last.name = "H"
    /\ last.flag
    /\ AfLo \div 16 = 2

\* C4: set_flag(F, value) changes at most bit FlagBit[F] of the low lane of
\* AF; register A, bits 3..0 of the low lane, BC, DE, HL, SP and PC keep their
\* values; get_flag changes nothing. Computed for every low lane of AF at
\* reset; then for each call made.
C4_SetFlagFrame ==
    /\ \A rs \in AnyAf, f \in FlagNames, value \in BOOLEAN :
          LET after == set_flag(rs, f, value, target_endian)
              lo == ViewGet(rs.af, "lo", target_endian)
              lo_after == ViewGet(after.af, "lo", target_endian)
          IN /\ ViewGet(after.af, "hi", target_endian) = ViewGet(rs.af, "hi", target_endian)
             /\ \A i \in 0..7 : i # FlagBit[f] => Bit(lo_after, i) = Bit(lo, i)
             /\ Bit(lo_after, FlagBit[f]) = (IF value THEN 1 ELSE 0)
             /\ \A r \in {"bc", "de", "hl", "sp", "pc"} : after[r] = rs[r]
    /\ [][/\ last'.op = "set_flag"
                => /\ ViewGet(regs'.af, "hi", target_endian) = AfHi
                   /\ \A i \in 0..7 :
                         i # FlagBit[last'.name]
                            => Bit(ViewGet(regs'.af, "lo", target_endian), i) = Bit(AfLo, i)
                   /\ Bit(ViewGet(regs'.af, "lo", target_endian), FlagBit[last'.name])
                         = (IF last'.flag THEN 1 ELSE 0)
                   /\ \A f \in {"bc", "de", "hl", "sp", "pc"} : regs'[f] = regs[f]
          /\ last'.op = "get_flag" => regs' = regs]_vars

\* set_flag(C, false) on AF = 0x1234 left A = 0x12 and the low lane 0x24
C4_Witness ==
    /\ last.op = "set_flag"
    /\ last.name = "C"
    /\ ~last.flag
    /\ AfHi = 18
    /\ AfLo = 36

\* a write through a view of a field is a call Registers offers
Writable(field, view) ==
    ENABLED (\E acc \in AccessorsOf(field, view), value \in ViewInputs(view) :
                CallStore(acc, value, MaxFlagOps))

\* a read through a view of a field is a call Registers offers
Readable(field, view) ==
    ENABLED (\E acc \in AccessorsOf(field, view) : CallLoad(acc, MaxFlagOps))

\* C9 as stated: each of AF, BC, DE and HL can be written and read as the
\* whole 16-bit value, as a high lane and as a low lane.
C9_AllFourPairsHaveThreeViews ==
    nops < MaxFlagOps
       => \A f \in PairNames, view \in Views : Writable(f, view) /\ Readable(f, view)

\* C9, amended: BC, DE and HL can be written and read through all three
\* views; of AF, Registers offers the high lane alone, and the flag bits
\* through set_flag and get_flag. AF is stored as the same U8Pair: its 16-bit
\* value holds A in bits 15..8 and the flags in bits 7..4, so a write through
\* a and a set_flag show in it, and get_flag returns its bits.
C9_AfHasHighLaneAndFlagsOnly ==
    LET af == as_u16(regs.af, target_endian)
    IN /\ nops < MaxFlagOps
             => /\ \A f \in {"bc", "de", "hl"}, view \in Views :
                      Writable(f, view) /\ Readable(f, view)
                /\ \A view \in Views :
                      /\ Writable("af", view) <=> view = "hi"
                      /\ Readable("af", view) <=> view = "hi"
       /\ af = 256 * AfHi + AfLo
       /\ Through(last, "store", "af", "hi") => af \div 256 = last.value
       /\ Through(last, "load", "af", "hi") => af \div 256 = last.ret
       /\ last.op = "set_flag" => Bit(af, FlagBit[last.name]) = (IF last.flag THEN 1 ELSE 0)
       /\ last.op = "get_flag" => Bit(af, FlagBit[last.name]) = (IF last.flag THEN 1 ELSE 0)

\* on a big-endian target, set_flag(Z, true) on AF = 0x1234 made it 0x12B4
C9_Witness ==
    /\ target_endian = "big"
    /\ last.op = "set_flag"
    /\ last.name = "Z"
    /\ last.flag
    /\ as_u16(regs.af, target_endian) = 4788

====
